---------------------------- MODULE Spec2Model ----------------------------
(***************************************************************************)
(* A model of runos' PacketParser (src/core/PacketParser.cc): the layered  *)
(* decode of a packet-in buffer into a table of field bindings, the DHCP   *)
(* option scan, and the field accessors load / modify.                     *)
(*                                                                         *)
(* Memory is a sequence of bytes `mem`: the first data_len bytes are the   *)
(* packet buffer, the SlackLen bytes after them are whatever happens to    *)
(* lie behind the buffer in memory.  A pointer into the packet is the      *)
(* offset of the byte it points at; offset o is mem[o + 1].  A read or a   *)
(* write at an offset >= data_len is an access past the end of the buffer. *)
(* Bit strings (bits<>) are sequences of bytes, most significant first.    *)
(***************************************************************************)
EXTENDS Integers, Sequences, FiniteSets, TLC

VARIABLES
    data_null,     \* pi.data() is a null pointer
    mem,           \* the packet buffer followed by the memory behind it
    data_len,      \* PacketParser::data_len
    in_port,       \* PacketParser::in_port, as the 4 bytes of the member
    bindings,      \* PacketParser::bindings: field id -> location
    vlan_tagged,   \* PacketParser::vlan_tagged
    dhcp_options,  \* PacketParser::dhcp_options: option code -> dhcp_opt
    scan,          \* what the last DHCP option scan read (history)
    fatal,         \* an ASSERT of the constructor failed
    pc,            \* "new" before the constructor has run, "done" after
    ret,           \* the last call on the constructed object and its result
    nmods          \* number of modify calls so far

vars == << data_null, mem, data_len, in_port, bindings, vlan_tagged,
           dhcp_options, scan, fatal, pc, ret, nmods >>

---------------------------------------------------------------------------
(* Bounds of the model *)

\* bytes of memory modelled behind the end of the packet buffer
SlackLen == 6
\* most (code, length, value) triples in a generated DHCP options region
MaxOpts == 2
\* most modify calls in one behaviour
MaxMods == 1

---------------------------------------------------------------------------
(* Program constants *)

TPID_8021Q    == 33024   \* 0x8100
ETH_P_IPV4    == 2048    \* 0x0800
ETH_P_ARP     == 2054    \* 0x0806
ETH_P_IPV6    == 34525   \* 0x86dd
IPPROTO_TCP   == 6
IPPROTO_UDP   == 17
IPPROTO_ICMP  == 1
DHCP_CLIENT_PORT == 68
DHCP_SERVER_PORT == 67
DHCP_FIXED_LEN   == 34
DHCP_END      == 255     \* 0xFF
COOKIE0       == 99      \* 0x63
COOKIE1       == 130     \* 0x82
COOKIE2       == 83      \* 0x53
COOKIE3       == 99      \* 0x63
DOT1Q_TAG_SIZE == 4
ARP_HTYPE_ETHERNET == 1
ARP_HLEN_ETHERNET  == 6
ARP_PLEN_IPV4      == 4

---------------------------------------------------------------------------
(* Header layouts: the offset of each member from the start of the header *)

ethernet_hdr == [dst |-> 0, src |-> 6, type |-> 12, size |-> 14]

\* mutant: the ethertype of a tagged frame taken from the tag type (tpid)
dot1q_hdr_tpid == [dst |-> 0, src |-> 6, tpid |-> 12, tci |-> 14, type |-> 12,
                   size |-> 18]

dot1q_hdr == [dst |-> 0, src |-> 6, tpid |-> 12, tci |-> 14, type |-> 16,
              size |-> 18]

ipv4_hdr == [ihl |-> 0, protocol |-> 9, src |-> 12, dst |-> 16, size |-> 20]

tcp_hdr == [src |-> 0, dst |-> 2, size |-> 20]

udp_hdr == [src |-> 0, dst |-> 2, size |-> 8, header_length |-> 8]

arp_hdr == [htype |-> 0, ptype |-> 2, hlen |-> 4, plen |-> 5, oper |-> 6,
            sha |-> 8, spa |-> 14, tha |-> 18, tpa |-> 24, size |-> 28]

dhcp_hdr == [op |-> 0, xid |-> 4, ciaddr |-> 12, yiaddr |-> 16,
             chaddr |-> 28, options |-> 34, size |-> 34]

---------------------------------------------------------------------------
(* Field identifiers and locations *)

\* the fields the parser binds (of::oxm::basic_match_fields)
Fields ==
    { "IN_PORT", "ETH_DST", "ETH_SRC", "ETH_TYPE", "VLAN_VID",
      "IP_PROTO", "IPV4_SRC", "IPV4_DST",
      "TCP_SRC", "TCP_DST", "UDP_SRC", "UDP_DST",
      "ARP_OP", "ARP_SPA", "ARP_TPA", "ARP_SHA", "ARP_THA",
      "DHCP_OP", "DHCP_XID", "DHCP_CIADDR", "DHCP_YIADDR", "DHCP_CHADDR" }

\* a field of the table the parser never binds
UnparsedFields == { "IPV6_FLABEL" }

AllFields == Fields \cup UnparsedFields

\* the size in bytes of the member each field is bound to
FieldBytes(f) ==
    CASE f \in {"ETH_DST", "ETH_SRC", "ARP_SHA", "ARP_THA", "DHCP_CHADDR"} -> 6
      [] f \in {"IN_PORT", "IPV4_SRC", "IPV4_DST", "ARP_SPA", "ARP_TPA",
                "DHCP_XID", "DHCP_CIADDR", "DHCP_YIADDR", "IPV6_FLABEL"} -> 4
      [] f \in {"ETH_TYPE", "VLAN_VID", "TCP_SRC", "TCP_DST", "UDP_SRC",
                "UDP_DST", "ARP_OP"} -> 2
      [] f \in {"IP_PROTO", "DHCP_OP"} -> 1

\* nullptr
NULL == [k |-> "null", off |-> 0]
\* a pointer to the byte at offset off of the packet buffer
Pkt(off) == [k |-> "pkt", off |-> off]
\* &in_port
InPortLoc == [k |-> "in_port", off |-> 0]

---------------------------------------------------------------------------
(* Reading memory *)

Rd8(m, off) == m[off + 1]

\* big_uint16_t at off
Rd16(m, off) == Rd8(m, off) * 256 + Rd8(m, off + 1)

\* n bytes starting at off, as a bit string
RdBytes(m, off, n) == [i \in 1..n |-> m[off + i]]

\* mutant: the check lets a header through that is one byte short
HeaderFits_OffByOne(size, len) == size <= len + 1

\* the length check in front of every header: sizeof(hdr) <= data_len
HeaderFits(size, len) == size <= len

---------------------------------------------------------------------------
(* The binding table *)

\* mutant: bindings.fill(nullptr) left out, every slot holds what was there
NewParser_NoFill(vt) ==
    [ bindings     |-> [f \in AllFields |-> Pkt(0)],
      vlan_tagged  |-> vt,
      dhcp_options |-> << >>,
      fatal        |-> FALSE,
      scan         |-> [ran |-> FALSE, options |-> 0, n |-> 0, reads |-> {},
                        stored |-> {}, seq |-> << >>] ]

\* the state of a PacketParser under construction
\*   reads: every offset the DHCP option scan dereferenced (history)
\*   seq: the entries the scan stored, in the order it stored them (history)
NewParser(vt) ==
    [ bindings     |-> [f \in AllFields |-> NULL],
      vlan_tagged  |-> vt,
      dhcp_options |-> << >>,
      fatal        |-> FALSE,
      scan         |-> [ran |-> FALSE, options |-> 0, n |-> 0, reads |-> {},
                        stored |-> {}, seq |-> << >>] ]

RECURSIVE bind_from(_, _, _)
bind_from(p, new_bindings, k) ==
    IF k > Len(new_bindings) THEN p
    ELSE LET id  == new_bindings[k][1]
             loc == new_bindings[k][2]
         IN  IF p.bindings[id] # NULL
             THEN [p EXCEPT !.fatal = TRUE]
             ELSE bind_from([p EXCEPT !.bindings[id] = loc],
                            new_bindings, k + 1)

\* mutant: only the first entry of the list is bound
bind_head(p, new_bindings) == bind_from(p, << new_bindings[1] >>, 1)

\* PacketParser::bind: every slot must be unset; an ASSERT throws otherwise
bind(p, new_bindings) == bind_from(p, new_bindings, 1)

RECURSIVE rebind_from(_, _, _)
rebind_from(p, new_bindings, k) ==
    IF k > Len(new_bindings) THEN p
    ELSE LET id  == new_bindings[k][1]
             loc == new_bindings[k][2]
         IN  IF p.bindings[id] = NULL
             THEN [p EXCEPT !.fatal = TRUE]
             ELSE rebind_from([p EXCEPT !.bindings[id] = loc],
                              new_bindings, k + 1)

\* PacketParser::rebind: every slot must be set
rebind(p, new_bindings) == rebind_from(p, new_bindings, 1)

---------------------------------------------------------------------------
(* DHCP *)

\* dhcp_opt(code, len, data): data is the offset of the first value byte
dhcp_opt(code, len, data) == [code |-> code, len |-> len, data |-> data]

\* dhcp_opt(): the empty entry
dhcp_opt_empty == [code |-> 0, len |-> 0, data |-> -1]

\* mutant: an entry already in the table is kept
MapPut_KeepFirst(d, code, opt) ==
    [c \in DOMAIN d \cup {code} |-> IF c \in DOMAIN d THEN d[c] ELSE opt]

\* this->dhcp_options[code] = opt
MapPut(d, code, opt) ==
    [c \in DOMAIN d \cup {code} |-> IF c = code THEN opt ELSE d[c]]

\* the test for the magic cookie at cursor i: each later byte is looked at
\* only when the earlier ones matched and its index is <= n
CookieAt(m, tmp, i, n) ==
    /\ Rd8(m, tmp) = COOKIE0
    /\ i + 1 <= n /\ Rd8(m, tmp + 1) = COOKIE1
    /\ i + 2 <= n /\ Rd8(m, tmp + 2) = COOKIE2
    /\ i + 3 <= n /\ Rd8(m, tmp + 3) = COOKIE3

\* the offsets that test dereferences
CookieReads(m, tmp, i, n) ==
    LET c0 == Rd8(m, tmp) = COOKIE0
        c1 == c0 /\ i + 1 <= n /\ Rd8(m, tmp + 1) = COOKIE1
        c2 == c1 /\ i + 2 <= n /\ Rd8(m, tmp + 2) = COOKIE2
    IN  {tmp}
        \cup (IF c0 /\ i + 1 <= n THEN {tmp + 1} ELSE {})
        \cup (IF c1 /\ i + 2 <= n THEN {tmp + 2} ELSE {})
        \cup (IF c2 /\ i + 3 <= n THEN {tmp + 3} ELSE {})

\* mutant: the cursor stops on the triple's last byte
NextCursor_Short(i, len) == i + len + 1

\* the cursor behind a triple at i: i += *(tmp + 1) + 1, then ++i
NextCursor(i, len) == (i + len + 1) + 1

\* the options loop: for (i = 0; i <= data_len - 34; ++i) with n = data_len - 34,
\* options the offset of dhcp->options, flag whether the cookie was seen
RECURSIVE options_loop(_, _, _, _, _, _)
options_loop(p, m, options, n, i, flag) ==
    IF ~(i <= n) THEN p
    ELSE
    LET tmp == options + i IN
    IF flag
    THEN IF Rd8(m, tmp) = DHCP_END
         THEN [p EXCEPT !.scan.reads = @ \cup {tmp}]
         ELSE LET code == Rd8(m, tmp)
                  len  == Rd8(m, tmp + 1)
                  opt  == dhcp_opt(code, len, tmp + 2)
                  p1   == [p EXCEPT
                             !.dhcp_options = MapPut(@, code, opt),
                             !.scan.reads = @ \cup {tmp, tmp + 1},
                             !.scan.stored = @ \cup {opt},
                             !.scan.seq = Append(@, opt)]
              IN  options_loop(p1, m, options, n, NextCursor(i, len), TRUE)
    ELSE LET p1 == [p EXCEPT !.scan.reads = @ \cup CookieReads(m, tmp, i, n)]
         IN  IF CookieAt(m, tmp, i, n)
             THEN options_loop(p1, m, options, n, (i + 3) + 1, TRUE)
             ELSE options_loop(p1, m, options, n, i + 1, FALSE)

\* PacketParser::parse_dhcp(data, data_len)
parse_dhcp(p, m, data, len) ==
    IF HeaderFits(dhcp_hdr.size, len)
    THEN LET p1 == bind(p, << <<"DHCP_OP", Pkt(data + dhcp_hdr.op)>>,
                              <<"DHCP_XID", Pkt(data + dhcp_hdr.xid)>>,
                              <<"DHCP_CIADDR", Pkt(data + dhcp_hdr.ciaddr)>>,
                              <<"DHCP_YIADDR", Pkt(data + dhcp_hdr.yiaddr)>>,
                              <<"DHCP_CHADDR", Pkt(data + dhcp_hdr.chaddr)>> >>)
             p2 == [p1 EXCEPT !.scan.ran = TRUE,
                              !.scan.options = data + dhcp_hdr.options,
                              !.scan.n = len - DHCP_FIXED_LEN]
         IN  IF p1.fatal THEN p1
             ELSE options_loop(p2, m, data + dhcp_hdr.options,
                               len - DHCP_FIXED_LEN, 0, FALSE)
    ELSE p

---------------------------------------------------------------------------
(* Transport, network and link layer *)

\* PacketParser::parse_l4(protocol, data, data_len)
parse_l4(p, m, protocol, data, len) ==
    CASE protocol = IPPROTO_TCP ->
            IF HeaderFits(tcp_hdr.size, len)
            THEN bind(p, << <<"TCP_SRC", Pkt(data + tcp_hdr.src)>>,
                            <<"TCP_DST", Pkt(data + tcp_hdr.dst)>> >>)
            ELSE p
      [] protocol = IPPROTO_UDP ->
            IF HeaderFits(udp_hdr.size, len)
            THEN LET p1 == bind(p, << <<"UDP_SRC", Pkt(data + udp_hdr.src)>>,
                                      <<"UDP_DST", Pkt(data + udp_hdr.dst)>> >>)
                 IN  IF p1.fatal THEN p1
                     ELSE IF /\ len > udp_hdr.header_length
                             /\ Rd16(m, data + udp_hdr.src) = DHCP_CLIENT_PORT
                             /\ Rd16(m, data + udp_hdr.dst) = DHCP_SERVER_PORT
                          THEN parse_dhcp(p1, m, data + udp_hdr.header_length,
                                          len - udp_hdr.header_length)
                          ELSE p1
            ELSE p
      [] OTHER -> p

\* mutant: ihl taken from the high nibble, where the version is
ipv4_header_length_hi(m, ipv4) == (Rd8(m, ipv4 + ipv4_hdr.ihl) \div 16) * 4

\* ipv4_hdr::header_length(): ihl is the low nibble of the first byte
ipv4_header_length(m, ipv4) == (Rd8(m, ipv4 + ipv4_hdr.ihl) % 16) * 4

\* PacketParser::parse_l3(eth_type, data, data_len)
parse_l3(p, m, eth_type, data, len) ==
    CASE eth_type = ETH_P_IPV4 ->
            IF HeaderFits(ipv4_hdr.size, len)
            THEN LET p1 == bind(p, << <<"IP_PROTO", Pkt(data + ipv4_hdr.protocol)>>,
                                      <<"IPV4_SRC", Pkt(data + ipv4_hdr.src)>>,
                                      <<"IPV4_DST", Pkt(data + ipv4_hdr.dst)>> >>)
                     hl == ipv4_header_length(m, data)
                 IN  IF p1.fatal THEN p1
                     ELSE IF len > hl
                          THEN parse_l4(p1, m, Rd8(m, data + ipv4_hdr.protocol),
                                        data + hl, len - hl)
                          ELSE p1
            ELSE p
      [] eth_type = ETH_P_ARP ->
            IF HeaderFits(arp_hdr.size, len)
            THEN IF \/ Rd16(m, data + arp_hdr.htype) # ARP_HTYPE_ETHERNET
                    \/ Rd16(m, data + arp_hdr.ptype) # ETH_P_IPV4
                    \/ Rd8(m, data + arp_hdr.hlen) # ARP_HLEN_ETHERNET
                    \/ Rd8(m, data + arp_hdr.plen) # ARP_PLEN_IPV4
                 THEN p
                 ELSE bind(p, << <<"ARP_OP", Pkt(data + arp_hdr.oper)>>,
                                 <<"ARP_SHA", Pkt(data + arp_hdr.sha)>>,
                                 <<"ARP_THA", Pkt(data + arp_hdr.tha)>>,
                                 <<"ARP_SPA", Pkt(data + arp_hdr.spa)>>,
                                 <<"ARP_TPA", Pkt(data + arp_hdr.tpa)>> >>)
            ELSE p
      [] OTHER -> p

\* PacketParser::parse_l2(data, data_len)
parse_l2(p, m, data, len) ==
    IF HeaderFits(ethernet_hdr.size, len)
    THEN IF Rd16(m, data + ethernet_hdr.type) = TPID_8021Q
         THEN LET p1 == bind([p EXCEPT !.vlan_tagged = TRUE],
                             << <<"ETH_TYPE", Pkt(data + dot1q_hdr.type)>>,
                                <<"ETH_SRC", Pkt(data + dot1q_hdr.src)>>,
                                <<"ETH_DST", Pkt(data + dot1q_hdr.dst)>>,
                                <<"VLAN_VID", Pkt(data + dot1q_hdr.tci)>> >>)
              IN  IF p1.fatal THEN p1
                  ELSE parse_l3(p1, m, Rd16(m, data + dot1q_hdr.type),
                                data + ethernet_hdr.size + DOT1Q_TAG_SIZE,
                                len - ethernet_hdr.size)
         ELSE LET p1 == bind([p EXCEPT !.vlan_tagged = FALSE],
                             << <<"ETH_TYPE", Pkt(data + ethernet_hdr.type)>>,
                                <<"ETH_SRC", Pkt(data + ethernet_hdr.src)>>,
                                <<"ETH_DST", Pkt(data + ethernet_hdr.dst)>>,
                                <<"VLAN_VID", NULL>> >>)
              IN  IF p1.fatal THEN p1
                  ELSE parse_l3(p1, m, Rd16(m, data + ethernet_hdr.type),
                                data + ethernet_hdr.size,
                                len - ethernet_hdr.size)
    ELSE p

\* PacketParser::PacketParser(pi): isnull says pi.data() is null, vt is the
\* value the uninitialised member vlan_tagged happens to hold
PacketParser(m, len, isnull, vt) ==
    LET p1 == bind(NewParser(vt), << <<"IN_PORT", InPortLoc>> >>)
    IN  IF p1.fatal \/ isnull THEN p1
        ELSE parse_l2(p1, m, 0, len)

---------------------------------------------------------------------------
(* Bit strings: bits<> as a sequence of bytes, most significant first *)

Bit(x, i) == (x \div (2 ^ i)) % 2

And8(a, b) ==
    LET f[i \in 0..8] ==
            IF i = 8 THEN 0 ELSE Bit(a, i) * Bit(b, i) * (2 ^ i) + f[i + 1]
    IN  IF b = 255 THEN a ELSE IF b = 0 THEN 0 ELSE f[0]

Not8(a) == 255 - a

Or8(a, b) == a + b - And8(a, b)

BitsAnd(x, y) == [i \in 1..Len(x) |-> And8(x[i], y[i])]

\* lhs >> patch: the bits of lhs the patch mask selects are replaced by the
\* patch's
BitsPatch(old, value, mask) ==
    [i \in 1..Len(old) |->
        Or8(And8(old[i], Not8(mask[i])), And8(value[i], mask[i]))]

\* the mask with every bit of the field set
AllOnes(f) == [i \in 1..FieldBytes(f) |-> 255]

\* bits::to_buffer: the bit string written over the bytes at off
WrBytes(m, off, b) ==
    [i \in 1..Len(m) |->
        IF off < i /\ i <= off + Len(b) THEN b[i - off] ELSE m[i]]

---------------------------------------------------------------------------
(* The accessors of a constructed parser *)

OPENFLOW_BASIC == "OPENFLOW_BASIC"

\* oxm::type: a namespace and a field id
OxmType(ns, id) == [ns |-> ns, id |-> id]

\* mutant: the namespace of the type is not looked at
access_any_ns(t) ==
    IF ~(t.id \in DOMAIN bindings /\ bindings[t.id] # NULL)
    THEN [fatal |-> TRUE, loc |-> NULL]
    ELSE [fatal |-> FALSE, loc |-> bindings[t.id]]

\* PacketParser::access: the location of the field, or "fatal" when an
\* ASSERT fails
access(t) ==
    IF t.ns # OPENFLOW_BASIC THEN [fatal |-> TRUE, loc |-> NULL]
    ELSE IF ~(t.id \in DOMAIN bindings /\ bindings[t.id] # NULL)
         THEN [fatal |-> TRUE, loc |-> NULL]
         ELSE [fatal |-> FALSE, loc |-> bindings[t.id]]

\* oxm::type::nbits(): the registry declares each field as wide as the
\* header member it is bound to
nbits(t) == 8 * FieldBytes(t.id)

\* bits<>(nbits, ptr): nbits bits read at the location, first byte first
FieldBits(t, loc) ==
    IF loc.k = "in_port" THEN in_port
    ELSE RdBytes(mem, loc.off, nbits(t) \div 8)

\* PacketParser::load(mask): the value bits under the mask
load(t, mask) ==
    LET a == access(t)
    IN  IF a.fatal THEN [fatal |-> TRUE, value |-> << >>, mask |-> mask]
        ELSE [fatal |-> FALSE,
              value |-> BitsAnd(FieldBits(t, a.loc), mask),
              mask  |-> mask]

\* mutant: the current value is loaded under the patch's mask
modify_updated_masked(t, value, mask) ==
    LET cur == load(t, mask)
    IN  IF cur.fatal THEN cur
        ELSE [fatal |-> FALSE,
              value |-> BitsPatch(cur.value, value, mask),
              mask  |-> cur.mask]

\* PacketParser::modify(patch): the bit string written back to the field
modify_updated(t, value, mask) ==
    LET cur == load(t, AllOnes(t.id))
    IN  IF cur.fatal THEN cur
        ELSE [fatal |-> FALSE,
              value |-> BitsPatch(cur.value, value, mask),
              mask  |-> cur.mask]

\* PacketParser::get_dhcp_option(code)
get_dhcp_option(code) ==
    IF code \notin DOMAIN dhcp_options THEN dhcp_opt_empty
    ELSE dhcp_options[code]

\* mutant: dhcp_options[code] without the find in front of it, which puts
\* an empty entry into the table for a code that is not in it
get_dhcp_option_table_indexed(code) ==
    IF code \in DOMAIN dhcp_options THEN dhcp_options
    ELSE MapPut(dhcp_options, code, dhcp_opt_empty)

\* the option table after get_dhcp_option(code): find does not insert, and
\* dhcp_options[code] is reached only for a code that is in the table
get_dhcp_option_table(code) == dhcp_options

\* mutant: the packet length whatever the capacity is
Min_First(a, b) == a

\* std::min
Min(a, b) == IF a <= b THEN a ELSE b

\* PacketParser::serialize_to(buffer_size, buffer): the count and the bytes
\* copied
serialize_to(buffer_size) ==
    LET copied == Min(data_len, buffer_size)
    IN  [copied |-> copied, bytes |-> SubSeq(mem, 1, copied)]

\* PacketParser::total_bytes()
total_bytes == data_len

---------------------------------------------------------------------------
(* The packets the parser is run on *)

BE16(v) == << v \div 256, v % 256 >>

Fill(n, b) == [i \in 1..n |-> b]

MacDst == << 1, 2, 3, 4, 5, 6 >>
MacSrc == << 17, 18, 19, 20, 21, 22 >>

\* tci < 0: no 802.1Q tag
NoTag == -1

EthFrame(tci, type, payload) ==
    MacDst \o MacSrc
    \o (IF tci = NoTag THEN << >> ELSE BE16(TPID_8021Q) \o BE16(tci))
    \o BE16(type) \o payload

ArpPkt(htype, ptype, hlen, plen) ==
    BE16(htype) \o BE16(ptype) \o << hlen, plen >> \o BE16(2)
    \o << 33, 34, 35, 36, 37, 38 >> \o << 10, 0, 0, 1 >>
    \o << 49, 50, 51, 52, 53, 54 >> \o << 10, 0, 0, 2 >>

\* version 4, the given ihl, (ihl - 5) words of options when ihl > 5
Ipv4Pkt(ihl, proto, payload) ==
    << 64 + ihl, 0, 0, 0, 0, 7, 0, 0, 64, proto, 0, 0,
       10, 0, 0, 1, 10, 0, 0, 2 >>
    \o (IF ihl > 5 THEN Fill((ihl - 5) * 4, 1) ELSE << >>)
    \o payload

TcpSeg(sp, dp) ==
    BE16(sp) \o BE16(dp)
    \o << 0, 0, 0, 9, 0, 0, 0, 0, 80, 2, 32, 0, 0, 0, 0, 0 >>

UdpDgram(sp, dp, payload) ==
    BE16(sp) \o BE16(dp) \o BE16(8 + Len(payload)) \o << 0, 0 >> \o payload

DhcpFixed ==
    << 1, 1, 6, 0,  222, 173, 190, 239,  0, 0,  128, 0,
       10, 0, 0, 9,  10, 0, 0, 10,  10, 0, 0, 11,  10, 0, 0, 12,
       17, 18, 19, 20, 21, 22 >>

Cookie == << COOKIE0, COOKIE1, COOKIE2, COOKIE3 >>

\* (code, length, value) triples; one value holds the terminator's byte
OptShapes == { << 53, 1, 255 >>, << 12, 0 >> }

RECURSIVE OptSeqs(_)
OptSeqs(n) ==
    IF n = 0 THEN { << >> }
    ELSE LET S == OptSeqs(n - 1)
         IN  S \cup { s \o o : s \in S, o \in OptShapes }

\* what may follow the options: nothing, or the terminator and a triple
\* behind it
OptTails == { << >>, << DHCP_END, 54, 1, 9 >> }

\* options regions: bytes in front of the cookie, the cookie (or a broken
\* one), triples, a tail; one region repeats a code with another length
DhcpRegions ==
    { Fill(k, COOKIE0) \o Cookie \o s \o t :
        k \in {0, 1}, s \in OptSeqs(MaxOpts), t \in OptTails }
    \cup { << COOKIE0, COOKIE1, COOKIE2, 0, 53, 1, 2, DHCP_END >>,
            Cookie \o << 53, 1, 2, 12, 0, 53, 2, 7, 8, DHCP_END >> }

DhcpUdp(region) ==
    Ipv4Pkt(5, IPPROTO_UDP,
            UdpDgram(DHCP_CLIENT_PORT, DHCP_SERVER_PORT, DhcpFixed \o region))

\* network-layer payloads: <<ethertype, bytes, least length run>>
PlainL3 ==
    { << ETH_P_IPV6, << 96, 0, 0, 0, 0, 0, 6, 64 >>, 0 >>,
      << ETH_P_ARP, ArpPkt(1, ETH_P_IPV4, 6, 4) \o << 0, 0 >>, 0 >>,
      << ETH_P_ARP, ArpPkt(2, ETH_P_IPV4, 6, 4), 40 >>,
      << ETH_P_ARP, ArpPkt(1, ETH_P_IPV6, 6, 4), 40 >>,
      << ETH_P_ARP, ArpPkt(1, ETH_P_IPV4, 8, 4), 40 >>,
      << ETH_P_ARP, ArpPkt(1, ETH_P_IPV4, 6, 16), 40 >>,
      << ETH_P_IPV4, DhcpUdp(Cookie \o << 53, 1, 2, DHCP_END >>), 0 >>,
      << ETH_P_IPV4,
         Ipv4Pkt(5, IPPROTO_UDP,
                 UdpDgram(DHCP_SERVER_PORT, DHCP_CLIENT_PORT,
                          DhcpFixed \o Cookie \o << 53, 1, 2, DHCP_END >>)),
         70 >>,
      << ETH_P_IPV4, Ipv4Pkt(5, IPPROTO_ICMP, << 8, 0, 0, 0 >>), 30 >> }
    \cup { << ETH_P_IPV4,
              Ipv4Pkt(ihl, IPPROTO_TCP, TcpSeg(4660, 80) \o << 71 >>), 0 >> :
             ihl \in {0, 5, 6} }
    \cup { << ETH_P_IPV4,
              Ipv4Pkt(ihl, IPPROTO_UDP, UdpDgram(53, 53, << 7 >>)), 30 >> :
             ihl \in {3, 5, 6} }

\* the tag control words used: VLAN 100 without and with priority / DEI bits
TciValues == { 100, 45156 }

\* the packets of Spec: [frame, minlen], run at every length minlen..Len(frame)
Packets ==
    { [frame |-> EthFrame(t, l3[1], l3[2]), minlen |-> l3[3]] :
        t \in {NoTag, 100}, l3 \in PlainL3 }
    \cup
    { [frame |-> EthFrame(45156, ETH_P_IPV4,
                          Ipv4Pkt(5, IPPROTO_TCP, TcpSeg(4660, 80))),
       minlen |-> 0] }
    \cup
    { [frame |-> EthFrame(t, ETH_P_IPV4, DhcpUdp(r)),
       minlen |-> Len(EthFrame(t, ETH_P_IPV4, DhcpUdp(<< >>)))] :
        t \in {NoTag, 100}, r \in DhcpRegions }

\* the packets of SpecAccess: [frame, lens], run at the lengths lens
AccessPackets ==
    { [frame |-> EthFrame(NoTag, ETH_P_IPV4,
                          Ipv4Pkt(5, IPPROTO_TCP, TcpSeg(4660, 80))),
       lens |-> {13, 54}],
      [frame |-> EthFrame(NoTag, ETH_P_ARP, ArpPkt(1, ETH_P_IPV4, 6, 4)),
       lens |-> {42}],
      [frame |-> EthFrame(NoTag, ETH_P_IPV4,
                          DhcpUdp(Cookie \o << 53, 1, 2, DHCP_END >>)),
       lens |-> {84}] }
    \cup
    { [frame |-> EthFrame(t, ETH_P_IPV4,
                          Ipv4Pkt(5, IPPROTO_TCP, TcpSeg(4660, 80))),
       lens |-> {16, 58}] : t \in TciValues }

\* the memory behind a buffer of length len cut from frame: 0xFF bytes, or
\* the rest of the frame followed by zero bytes
MemOf(frame, len, ff) ==
    IF ff THEN SubSeq(frame, 1, len) \o Fill(SlackLen, 255)
    ELSE SubSeq(frame \o Fill(SlackLen, 0), 1, len + SlackLen)

InPorts == { << 0, 0, 0, 3 >> }

---------------------------------------------------------------------------
(* The state machine *)

InitObject ==
    /\ in_port \in InPorts
    /\ bindings = [f \in AllFields |-> NULL]
    /\ vlan_tagged \in BOOLEAN
    /\ dhcp_options = << >>
    /\ scan = NewParser(FALSE).scan
    /\ fatal = FALSE
    /\ pc = "new"
    /\ ret = [op |-> "none"]
    /\ nmods = 0

Init ==
    /\ \/ /\ data_null = TRUE
          /\ data_len = 0
          /\ mem = << >>
       \/ /\ data_null = FALSE
          /\ \E pk \in Packets, ff \in BOOLEAN :
               \E len \in pk.minlen..Len(pk.frame) :
                  /\ data_len = len
                  /\ mem = MemOf(pk.frame, len, ff)
    /\ InitObject

InitAccess ==
    /\ \/ /\ data_null = TRUE
          /\ data_len = 0
          /\ mem = << >>
       \/ /\ data_null = FALSE
          /\ \E pk \in AccessPackets :
               \E len \in pk.lens :
                  /\ data_len = len
                  /\ mem = MemOf(pk.frame, len, FALSE)
    /\ InitObject

\* the constructor
Construct ==
    /\ pc = "new"
    /\ LET p == PacketParser(mem, data_len, data_null, vlan_tagged)
       IN  /\ bindings' = p.bindings
           /\ vlan_tagged' = p.vlan_tagged
           /\ dhcp_options' = p.dhcp_options
           /\ scan' = p.scan
           /\ fatal' = p.fatal
    /\ pc' = "done"
    /\ UNCHANGED << data_null, mem, data_len, in_port, ret, nmods >>

Constructed == pc = "done" /\ ~fatal

\* the types asked for: every field in the supported namespace, and one in
\* another namespace
OxmTypes ==
    { OxmType(OPENFLOW_BASIC, f) : f \in AllFields }
    \cup { OxmType("EXPERIMENTER", "ETH_TYPE") }

\* the masks asked for: all ones, and one clearing the top four bits
LowMask(f) == [i \in 1..FieldBytes(f) |-> IF i = 1 THEN 15 ELSE 255]

Masks(f) == { AllOnes(f) } \cup (IF f = "VLAN_VID" THEN { LowMask(f) } ELSE {})

Load ==
    /\ Constructed
    /\ \E t \in OxmTypes : \E mask \in Masks(t.id) :
         ret' = [op |-> "load", type |-> t, arg |-> mask, res |-> load(t, mask)]
    /\ UNCHANGED << data_null, mem, data_len, in_port, bindings, vlan_tagged,
                    dhcp_options, scan, fatal, pc, nmods >>

\* the patches asked for: <<value bits, mask>>
Patches(f) ==
    { << Fill(FieldBytes(f), 165), AllOnes(f) >>,
      << Fill(FieldBytes(f), 90), LowMask(f) >> }

Modify ==
    /\ Constructed
    /\ nmods < MaxMods
    /\ \E t \in OxmTypes : \E patch \in Patches(t.id) :
         LET upd == modify_updated(t, patch[1], patch[2])
             a   == access(t)
         IN  /\ ret' = [op |-> "modify", type |-> t, arg |-> patch,
                        res |-> [fatal |-> upd.fatal]]
             /\ IF upd.fatal \/ a.fatal
                THEN UNCHANGED << mem, in_port >>
                ELSE IF a.loc.k = "in_port"
                     THEN in_port' = upd.value /\ mem' = mem
                     ELSE mem' = WrBytes(mem, a.loc.off, upd.value)
                          /\ in_port' = in_port
    /\ nmods' = nmods + 1
    /\ UNCHANGED << data_null, data_len, bindings, vlan_tagged,
                    dhcp_options, scan, fatal, pc >>

VlanTagged ==
    /\ Constructed
    /\ ret' = [op |-> "vlanTagged", res |-> vlan_tagged]
    /\ UNCHANGED << data_null, mem, data_len, in_port, bindings, vlan_tagged,
                    dhcp_options, scan, fatal, pc, nmods >>

OptCodes == { 0, 12, 53, 54, 99 }

GetDhcpOption ==
    /\ Constructed
    /\ \E code \in OptCodes :
         /\ ret' = [op |-> "get_dhcp_option", arg |-> code,
                    res |-> get_dhcp_option(code)]
         /\ dhcp_options' = get_dhcp_option_table(code)
    /\ UNCHANGED << data_null, mem, data_len, in_port, bindings, vlan_tagged,
                    scan, fatal, pc, nmods >>

BufferSizes == { 0, 20, 120 }

SerializeTo ==
    /\ Constructed
    /\ \E buffer_size \in BufferSizes :
         ret' = [op |-> "serialize_to", arg |-> buffer_size,
                 res |-> serialize_to(buffer_size)]
    /\ UNCHANGED << data_null, mem, data_len, in_port, bindings, vlan_tagged,
                    dhcp_options, scan, fatal, pc, nmods >>

TotalBytes ==
    /\ Constructed
    /\ ret' = [op |-> "total_bytes", res |-> total_bytes]
    /\ UNCHANGED << data_null, mem, data_len, in_port, bindings, vlan_tagged,
                    dhcp_options, scan, fatal, pc, nmods >>

Next ==
    \/ Construct
    \/ Load
    \/ VlanTagged
    \/ GetDhcpOption
    \/ SerializeTo
    \/ TotalBytes

Spec == Init /\ [][Next]_vars

NextAccess ==
    \/ Construct
    \/ Load
    \/ Modify
    \/ VlanTagged
    \/ GetDhcpOption
    \/ SerializeTo
    \/ TotalBytes

SpecAccess == InitAccess /\ [][NextAccess]_vars

---------------------------------------------------------------------------
(* bind and rebind called on a constructed parser *)

\* the constructed object as the parse functions see it
This ==
    [ bindings |-> bindings, vlan_tagged |-> vlan_tagged,
      dhcp_options |-> dhcp_options, fatal |-> FALSE, scan |-> scan ]

\* the fields and locations bind and rebind are called with
BindFields == { "VLAN_VID", "ETH_TYPE", "TCP_SRC", "IPV6_FLABEL" }
BindLocs == { Pkt(0), Pkt(14) }

\* binding lists of one entry, and of two entries for different fields
BindLists ==
    { << <<f, l>> >> : f \in BindFields, l \in BindLocs }
    \cup { << <<f, Pkt(0)>>, <<g, Pkt(14)>> >> :
             f \in { "IPV6_FLABEL", "ETH_TYPE" }, g \in { "VLAN_VID", "TCP_SRC" } }

\* the packets of SpecBind
BindPackets ==
    { [frame |-> EthFrame(t, ETH_P_IPV4,
                          Ipv4Pkt(5, IPPROTO_TCP, TcpSeg(4660, 80))),
       lens |-> {13, 34, IF t = NoTag THEN 54 ELSE 58}] : t \in {NoTag, 100} }

InitBind ==
    /\ data_null = FALSE
    /\ \E pk \in BindPackets :
         \E len \in pk.lens :
            /\ data_len = len
            /\ mem = MemOf(pk.frame, len, FALSE)
    /\ InitObject

\* bind(new_bindings); before is the table the call found
Bind ==
    /\ Constructed
    /\ \E new_bindings \in BindLists :
         LET p == bind(This, new_bindings)
         IN  /\ bindings' = p.bindings
             /\ ret' = [op |-> "bind", arg |-> new_bindings,
                        res |-> [fatal |-> p.fatal], before |-> bindings]
    /\ UNCHANGED << data_null, mem, data_len, in_port, vlan_tagged,
                    dhcp_options, scan, fatal, pc, nmods >>

\* rebind(new_bindings)
Rebind ==
    /\ Constructed
    /\ \E new_bindings \in BindLists :
         LET p == rebind(This, new_bindings)
         IN  /\ bindings' = p.bindings
             /\ ret' = [op |-> "rebind", arg |-> new_bindings,
                        res |-> [fatal |-> p.fatal], before |-> bindings]
    /\ UNCHANGED << data_null, mem, data_len, in_port, vlan_tagged,
                    dhcp_options, scan, fatal, pc, nmods >>

NextBind ==
    \/ Construct
    \/ Bind
    \/ Rebind

SpecBind == InitBind /\ [][NextBind]_vars

---------------------------------------------------------------------------
(* Vocabulary of the properties *)

Basic(f) == OxmType(OPENFLOW_BASIC, f)

Bound(f) == bindings[f] # NULL

\* the field is bound to bytes of the packet
InPkt(f) == bindings[f].k = "pkt"

\* the bytes the field is bound to lie inside the buffer
InsideBuffer(f) ==
    0 <= bindings[f].off /\ bindings[f].off + FieldBytes(f) <= data_len

LinkFields == { "ETH_TYPE", "ETH_SRC", "ETH_DST", "VLAN_VID" }
Ipv4Fields == { "IP_PROTO", "IPV4_SRC", "IPV4_DST" }
ArpFields  == { "ARP_OP", "ARP_SHA", "ARP_THA", "ARP_SPA", "ARP_TPA" }
TcpFields  == { "TCP_SRC", "TCP_DST" }
UdpFields  == { "UDP_SRC", "UDP_DST" }
DhcpFields == { "DHCP_OP", "DHCP_XID", "DHCP_CIADDR", "DHCP_YIADDR",
                "DHCP_CHADDR" }

\* the buffer holds a link-layer header
HasLink == Constructed /\ ~data_null /\ data_len >= 14

\* the 16-bit value at offset 12 is the 802.1Q tag type
TagAt12 == Rd16(mem, 12) = TPID_8021Q

\* the header of which field f is the member at offset member starts where
\* at least size bytes of the buffer are left
HeaderInside(f, member, size) ==
    Bound(f) => data_len - (bindings[f].off - member) >= size

---------------------------------------------------------------------------
(* C1 *)

\* C1: a buffer whose 16-bit value at offset 12 is 0x8100 has the 802.1Q
\* link-layer fields bound and is recorded VLAN-tagged only if it is at
\* least 18 bytes long, and no field is bound to bytes behind the end of
\* the buffer.  The parser checks 14 bytes only: violated.
C1_TagNeeds18Bytes ==
    (HasLink /\ TagAt12) =>
        /\ (vlan_tagged \/ \E f \in LinkFields : Bound(f)) => data_len >= 18
        /\ \A f \in Fields : InPkt(f) => InsideBuffer(f)

---------------------------------------------------------------------------
(* C2 *)

\* C2: the IPv4, ARP, TCP, UDP and DHCP headers are decoded only where 20,
\* 28, 20, 8 and 34 bytes are left from the header's start to the end of
\* the buffer, so every field of theirs lies inside the buffer; also on
\* VLAN-tagged frames.  The parser hands the network layer of a tagged
\* frame four bytes more than are left: violated.
C2_HeadersInsideBuffer ==
    Constructed =>
        /\ HeaderInside("IP_PROTO", ipv4_hdr.protocol, 20)
        /\ HeaderInside("ARP_OP", arp_hdr.oper, 28)
        /\ HeaderInside("TCP_SRC", tcp_hdr.src, 20)
        /\ HeaderInside("UDP_SRC", udp_hdr.src, 8)
        /\ HeaderInside("DHCP_OP", dhcp_hdr.op, 34)
        /\ \A f \in Ipv4Fields \cup ArpFields \cup TcpFields \cup UdpFields
                    \cup DhcpFields :
              InPkt(f) => InsideBuffer(f)

---------------------------------------------------------------------------
(* C3 *)

\* C3: every byte the DHCP option scan reads lies inside the buffer and
\* inside the options region (the scan stops where the cursor would pass
\* the region's end), and the value bytes of every entry stored lie inside
\* the buffer.  The loop runs its cursor up to and including the region's
\* length: violated.
C3_ScanInsideBuffer ==
    (Constructed /\ scan.ran) =>
        /\ \A r \in scan.reads : r < data_len
        /\ \A r \in scan.reads : r < scan.options + scan.n
        /\ \A o \in scan.stored : o.data + o.len <= data_len

---------------------------------------------------------------------------
(* C4 *)

\* C4: after construction over a buffer shorter than 14 bytes, or over no
\* buffer, the ingress port is the only field bound and the option table
\* is empty.
C4_ShortBufferBindsOnlyInPort ==
    (Constructed /\ (data_null \/ data_len < 14)) =>
        /\ bindings["IN_PORT"] = InPortLoc
        /\ \A f \in AllFields \ {"IN_PORT"} : ~Bound(f)
        /\ DOMAIN dhcp_options = {}

C4_Witness ==
    /\ Constructed /\ ~data_null /\ data_len = 13
    /\ bindings["IN_PORT"] = InPortLoc

---------------------------------------------------------------------------
(* C5 *)

\* C5: with a link layer decoded, a value of 0x8100 at offset 12 makes the
\* frame VLAN-tagged with the ethertype bound to offset 16; any other value
\* makes it untagged with the ethertype bound to offset 12 and the VLAN id
\* without a location.
C5_TagDecidesEthertype ==
    HasLink =>
        IF TagAt12
        THEN vlan_tagged /\ bindings["ETH_TYPE"] = Pkt(16)
        ELSE /\ ~vlan_tagged
             /\ bindings["ETH_TYPE"] = Pkt(12)
             /\ bindings["VLAN_VID"] = NULL

C5_Witness ==
    /\ HasLink /\ TagAt12 /\ data_len >= 18
    /\ ret.op = "vlanTagged" /\ ret.res = TRUE
    /\ bindings["ETH_TYPE"] = Pkt(16)

---------------------------------------------------------------------------
(* C6 *)

\* the last call was load of field f with every mask bit set
LoadedAllOnes(f) ==
    /\ Constructed
    /\ ret.op = "load" /\ ret.type = Basic(f) /\ ret.arg = AllOnes(f)

\* C6: on a VLAN-tagged frame of at least 18 bytes, load of the VLAN id
\* with an all-ones mask returns the low 12 bits of the 16-bit word at
\* offsets 14-15, whatever the priority and drop-eligible bits are.  The
\* field is bound to the whole tag control word: violated.
C6_VlanVidIsLow12Bits ==
    (LoadedAllOnes("VLAN_VID") /\ ~data_null /\ data_len >= 18 /\ vlan_tagged) =>
        /\ ~ret.res.fatal
        /\ ret.res.value = << Rd8(mem, 14) % 16, Rd8(mem, 15) >>

---------------------------------------------------------------------------
(* C7 *)

\* the bits of byte b the mask byte selects / leaves out
Selected(b, maskbyte) == And8(b, maskbyte)
Unselected(b, maskbyte) == And8(b, Not8(maskbyte))

\* bytes new are bytes old patched: the selected bits are the value's, the
\* others are old's
Patched(old, new, value, mask) ==
    /\ Len(new) = Len(old)
    /\ \A i \in 1..Len(old) :
          /\ Selected(new[i], mask[i]) = Selected(value[i], mask[i])
          /\ Unselected(new[i], mask[i]) = Unselected(old[i], mask[i])

\* a step is a modify call that did not fail
ModifyStep ==
    /\ nmods' = nmods + 1
    /\ ret'.op = "modify" /\ ~ret'.res.fatal

\* C7: after modify of a bound field the field's bits under the patch mask
\* are the patch's value bits, its other bits are as before, and every bit
\* outside the field is as before, also the bits that share a byte or a
\* 16-bit word with what the mask selects.
C7_ModifyChangesOnlyMaskedBits ==
    [][ ModifyStep =>
          LET f     == ret'.type.id
              value == ret'.arg[1]
              mask  == ret'.arg[2]
              loc   == bindings[f]
              n     == FieldBytes(f)
          IN  IF loc.k = "in_port"
              THEN /\ mem' = mem
                   /\ Patched(in_port, in_port', value, mask)
              ELSE /\ in_port' = in_port
                   /\ Len(mem') = Len(mem)
                   /\ Patched(RdBytes(mem, loc.off, n),
                              RdBytes(mem', loc.off, n), value, mask)
                   /\ \A o \in 0..(Len(mem) - 1) :
                         (o < loc.off \/ o >= loc.off + n) =>
                             Rd8(mem', o) = Rd8(mem, o) ]_vars

\* the VLAN id was patched under a mask that leaves the priority and
\* drop-eligible bits out, and those bits are set
C7_Witness ==
    /\ Constructed /\ nmods = 1
    /\ ret.op = "modify" /\ ~ret.res.fatal
    /\ ret.type = Basic("VLAN_VID") /\ ret.arg[2] = << 15, 255 >>
    /\ vlan_tagged /\ data_len >= 18
    /\ Rd8(mem, 14) = 186

---------------------------------------------------------------------------
(* C8 *)

\* where the network layer of the frame starts
L3Start == IF TagAt12 THEN 18 ELSE 14

\* the buffer holds a frame whose ethertype is ARP
ArpFrame ==
    /\ pc = "done" /\ ~data_null /\ data_len >= 14 /\ data_len >= L3Start
    /\ Rd16(mem, L3Start - 2) = ETH_P_ARP

\* 28 bytes are left and the ARP header is one of IPv4 over Ethernet
ArpValid ==
    /\ data_len - L3Start >= 28
    /\ Rd16(mem, L3Start + arp_hdr.htype) = 1
    /\ Rd16(mem, L3Start + arp_hdr.ptype) = 2048
    /\ Rd8(mem, L3Start + arp_hdr.hlen) = 6
    /\ Rd8(mem, L3Start + arp_hdr.plen) = 4

\* C8: on an ARP frame the five ARP fields are bound together exactly when
\* 28 bytes are left and the header checks pass; otherwise none is bound,
\* construction ends without error and access to an ARP field is fatal.
\* On a VLAN-tagged frame they are bound with 24 bytes left: violated.
C8_ArpBoundIffValid ==
    ArpFrame =>
        /\ ~fatal
        /\ (\A f \in ArpFields : Bound(f)) <=> ArpValid
        /\ ~ArpValid =>
              \A f \in ArpFields : ~Bound(f) /\ access(Basic(f)).fatal
        /\ (ret.op = "load" /\ ret.type.id \in ArpFields /\ ~ArpValid) =>
              ret.res.fatal

---------------------------------------------------------------------------
(* C9 *)

\* an untagged frame of an Ethernet header, a 20-byte IPv4 header with
\* protocol 6 and a 20-byte TCP header
PlainTcpFrame ==
    /\ Constructed /\ ~data_null /\ data_len >= 54
    /\ Rd16(mem, 12) = ETH_P_IPV4
    /\ Rd8(mem, 14) % 16 = 5
    /\ Rd8(mem, 23) = 6

\* C9: on such a frame load with an all-ones mask returns the 16-bit values
\* at offsets 34 and 36 for the TCP source and destination port, 6 for the
\* IP protocol and the 32-bit values at offsets 26 and 30 for the IPv4
\* source and destination address.
C9_TcpFrameLoads ==
    PlainTcpFrame =>
        /\ LoadedAllOnes("TCP_SRC") =>
              ~ret.res.fatal /\ ret.res.value = RdBytes(mem, 34, 2)
        /\ LoadedAllOnes("TCP_DST") =>
              ~ret.res.fatal /\ ret.res.value = RdBytes(mem, 36, 2)
        /\ LoadedAllOnes("IP_PROTO") =>
              ~ret.res.fatal /\ ret.res.value = << 6 >>
        /\ LoadedAllOnes("IPV4_SRC") =>
              ~ret.res.fatal /\ ret.res.value = RdBytes(mem, 26, 4)
        /\ LoadedAllOnes("IPV4_DST") =>
              ~ret.res.fatal /\ ret.res.value = RdBytes(mem, 30, 4)

C9_Witness ==
    /\ PlainTcpFrame /\ data_len = 54
    /\ LoadedAllOnes("TCP_DST")
    /\ ret.res.value = << 0, 80 >>

---------------------------------------------------------------------------
(* C10 *)

\* the offsets in from..limit-4 where the four cookie bytes stand
CookieOffsets(m, from, limit) ==
    { k \in from..(limit - 4) : RdBytes(m, k, 4) = Cookie }

\* the triples that stand from pos on, up to a terminator below limit;
\* ok says that the terminator and all triples lie below limit
RECURSIVE TriplesAt(_, _, _)
TriplesAt(m, pos, limit) ==
    IF pos >= limit THEN [ok |-> FALSE, opts |-> << >>]
    ELSE IF Rd8(m, pos) = DHCP_END THEN [ok |-> TRUE, opts |-> << >>]
    ELSE IF pos + 1 >= limit THEN [ok |-> FALSE, opts |-> << >>]
    ELSE LET len  == Rd8(m, pos + 1)
             rest == TriplesAt(m, pos + 2 + len, limit)
         IN  [ok   |-> rest.ok,
              opts |-> << dhcp_opt(Rd8(m, pos), len, pos + 2) >> \o rest.opts]

\* the triples of a DHCP payload whose options region holds the cookie,
\* triples and the terminator, all inside the buffer
PayloadTriples ==
    LET ks == CookieOffsets(mem, scan.options, data_len)
        k  == CHOOSE x \in ks : \A y \in ks : x <= y
    IN  IF ks = {} THEN [ok |-> FALSE, opts |-> << >>]
        ELSE TriplesAt(mem, k + 4, data_len)

WellFormedDhcp == Constructed /\ scan.ran /\ PayloadTriples.ok

\* C10: on such a payload get_dhcp_option(c) returns a triple of the
\* sequence with code c (its code, length and value bytes) for every code
\* that occurs and the empty entry for every other code; the entries
\* stored are exactly the triples, each read right behind the one before.
C10_OptionsOfWellFormedPayload ==
    WellFormedDhcp =>
        LET opts  == PayloadTriples.opts
            all   == { opts[k] : k \in 1..Len(opts) }
            codes == { o.code : o \in all }
        IN  /\ scan.stored = all
            /\ DOMAIN dhcp_options = codes
            /\ \A c \in OptCodes \cup codes :
                  IF c \in codes
                  THEN get_dhcp_option(c) \in { o \in all : o.code = c }
                  ELSE get_dhcp_option(c) = dhcp_opt_empty
            /\ ret.op = "get_dhcp_option" =>
                  IF ret.arg \in codes
                  THEN ret.res \in { o \in all : o.code = ret.arg }
                  ELSE ret.res = dhcp_opt_empty

\* two triples in front of the terminator, a triple behind it; the second
\* triple was asked for
C10_Witness ==
    /\ WellFormedDhcp
    /\ Len(PayloadTriples.opts) = 2
    /\ PayloadTriples.opts[1].code = 53 /\ PayloadTriples.opts[2].code = 12
    /\ ret.op = "get_dhcp_option" /\ ret.arg = 12
    /\ ret.res = PayloadTriples.opts[2]
    /\ Rd8(mem, ret.res.data) = DHCP_END
    /\ scan.options \notin CookieOffsets(mem, scan.options, data_len)

---------------------------------------------------------------------------
(* C11 *)

\* the entries of the sequence with the code
WithCode(seq, c) == { k \in 1..Len(seq) : seq[k].code = c }

\* the last entry of the sequence with the code
LastWithCode(seq, c) ==
    seq[CHOOSE k \in WithCode(seq, c) : \A j \in WithCode(seq, c) : j <= k]

\* C11: after construction the option table holds one entry for every code
\* the scan stored and no other, and the entry of a code is the one the
\* scan stored last for it (its length and its value bytes), also when the
\* code occurs more than once.
C11_LastDuplicateWins ==
    (Constructed /\ scan.ran) =>
        LET codes == { scan.seq[k].code : k \in 1..Len(scan.seq) }
        IN  /\ DOMAIN dhcp_options = codes
            /\ \A c \in codes :
                  /\ dhcp_options[c] = LastWithCode(scan.seq, c)
                  /\ get_dhcp_option(c) = LastWithCode(scan.seq, c)
            /\ (ret.op = "get_dhcp_option" /\ ret.arg \in codes) =>
                  ret.res = LastWithCode(scan.seq, ret.arg)

\* code 53 was stored twice, with lengths 1 and 2, with another code in
\* between; the entry asked for is the second
C11_Witness ==
    /\ Constructed /\ scan.ran
    /\ Len(scan.seq) = 3
    /\ scan.seq[1].code = 53 /\ scan.seq[1].len = 1
    /\ scan.seq[2].code = 12
    /\ scan.seq[3].code = 53 /\ scan.seq[3].len = 2
    /\ ret.op = "get_dhcp_option" /\ ret.arg = 53
    /\ ret.res = scan.seq[3]
    /\ RdBytes(mem, ret.res.data, ret.res.len) = << 7, 8 >>

---------------------------------------------------------------------------
(* C12 *)

\* the bytes a second buffer with the same content may have behind its end
OtherFills == { 0, 255 }

\* a second construction over a buffer with the same bytes, the same length
\* and the same ingress port, with fill behind its end and vt in the
\* member vlan_tagged before the constructor runs
Reparse(fill, vt) ==
    PacketParser(SubSeq(mem, 1, data_len) \o Fill(SlackLen, fill),
                 data_len, data_null, vt)

\* C12: a second, independent construction over a buffer with the same
\* bytes, length and ingress port ends with the same binding table and the
\* same option table, whatever lies behind the end of either buffer (stated
\* for buffers that hold a link-layer header, where the constructor always
\* writes the VLAN-tagged flag).  The option scan reads behind the end of
\* the buffer and stores what it finds there: violated.
C12_SameBufferSameTables ==
    (pc = "done" /\ ~data_null /\ data_len >= 14) =>
        \A fill \in OtherFills :
            LET q == Reparse(fill, vlan_tagged)
            IN  /\ q.bindings = bindings
                /\ q.dhcp_options = dhcp_options

---------------------------------------------------------------------------
(* C13 *)

\* an earlier bind set the slot of f in the table before: to a location, or
\* (the VLAN id of an untagged frame, bound by the link layer) to the
\* sentinel "no location"
SetBefore(before, f) ==
    \/ before[f] # NULL
    \/ f = "VLAN_VID" /\ HasLink /\ ~TagAt12

\* the fields of a binding list
ListFields(nb) == { nb[k][1] : k \in 1..Len(nb) }

\* C13: a bind that names a field whose slot an earlier bind set fails
\* fatally and leaves that slot as it was, a rebind that names a field whose
\* slot was never set fails fatally, and a call that does not fail leaves
\* every slot it names at the location given; also for the VLAN id of an
\* untagged frame, which the link layer bound to "no location".  That slot
\* is null, so a second bind of the VLAN id is accepted: violated.
C13_BindRejectsSetSlot ==
    (Constructed /\ ret.op \in {"bind", "rebind"}) =>
        LET nb == ret.arg
        IN  /\ ret.op = "bind" =>
                  \A f \in ListFields(nb) :
                      SetBefore(ret.before, f) =>
                          ret.res.fatal /\ bindings[f] = ret.before[f]
            /\ ret.op = "rebind" =>
                  \A f \in ListFields(nb) :
                      ~SetBefore(ret.before, f) => ret.res.fatal
            /\ ~ret.res.fatal =>
                  \A k \in 1..Len(nb) : bindings[nb[k][1]] = nb[k][2]

---------------------------------------------------------------------------
(* C14 *)

\* a step is a call of load or modify
AccessStep ==
    /\ ret'.op \in {"load", "modify"}
    /\ ret' # ret \/ nmods' # nmods

\* the slot of the type holds no location
NoLocation(t) == t.id \notin DOMAIN bindings \/ bindings[t.id] = NULL

\* C14: a call of load or modify fails fatally exactly when the namespace
\* of the type is not OPENFLOW_BASIC or the slot of the field holds no
\* location, and a call that fails leaves the packet bytes, the ingress
\* port and the binding table as they were; the VLAN id of an untagged
\* frame, recorded as absent, fails like a field never bound.
C14_AccessFailsIffUnsupported ==
    [][ AccessStep =>
          LET t == ret'.type
          IN  /\ ret'.res.fatal <=> (t.ns # OPENFLOW_BASIC \/ NoLocation(t))
              /\ ret'.res.fatal =>
                    mem' = mem /\ in_port' = in_port /\ bindings' = bindings
              /\ (t = Basic("VLAN_VID") /\ HasLink /\ ~vlan_tagged) =>
                    ret'.res.fatal ]_vars

\* modify of the VLAN id failed on an untagged frame whose link layer was
\* decoded
C14_Witness ==
    /\ HasLink /\ ~vlan_tagged /\ data_len = 54
    /\ Bound("ETH_TYPE") /\ bindings["VLAN_VID"] = NULL
    /\ ret.op = "modify" /\ ret.type = Basic("VLAN_VID") /\ ret.res.fatal
    /\ nmods = 1

---------------------------------------------------------------------------
(* C15 *)

\* a step is a call of serialize_to or total_bytes
CopyStep ==
    /\ ret'.op \in {"serialize_to", "total_bytes"}
    /\ ret' # ret

\* C15: serialize_to with a capacity of N on a packet of length L returns
\* min(N, L) and copies that many bytes, the first min(N, L) bytes of the
\* packet as they are at the call, in order; total_bytes returns L; neither
\* changes the packet bytes or the binding table.
C15_CopyIsCappedPrefix ==
    [][ CopyStep =>
          /\ mem' = mem /\ bindings' = bindings /\ data_len' = data_len
          /\ ret'.op = "total_bytes" => ret'.res = data_len
          /\ ret'.op = "serialize_to" =>
                LET N == ret'.arg
                    L == data_len
                    k == IF N <= L THEN N ELSE L
                IN  /\ ret'.res.copied = k
                    /\ Len(ret'.res.bytes) = k
                    /\ \A i \in 1..k : ret'.res.bytes[i] = Rd8(mem, i - 1) ]_vars

\* a copy cut by the capacity, taken after modify changed the ethertype
C15_Witness ==
    /\ Constructed /\ data_len = 54 /\ nmods = 1
    /\ ret.op = "serialize_to" /\ ret.arg = 20 /\ ret.res.copied = 20
    /\ ret.res.bytes[13] = 165 /\ ret.res.bytes[20] = 7

---------------------------------------------------------------------------
(* C16 *)

\* C16: once the constructor has returned, no call of load, modify,
\* serialize_to, total_bytes, vlanTagged or get_dhcp_option changes the
\* binding table, the VLAN-tagged flag, the packet length or the option
\* table, also when modify rewrites the ethertype or the IP protocol.
C16_StructureIsFrozen ==
    [][ pc = "done" =>
          /\ bindings' = bindings
          /\ vlan_tagged' = vlan_tagged
          /\ data_len' = data_len
          /\ dhcp_options' = dhcp_options ]_vars

\* modify rewrote the IP protocol of a DHCP frame: the transport and DHCP
\* fields are bound and the option is in the table as before
C16_Witness ==
    /\ Constructed /\ data_len = 84 /\ nmods = 1
    /\ ret.op = "modify" /\ ret.type = Basic("IP_PROTO") /\ ~ret.res.fatal
    /\ Rd8(mem, 23) # IPPROTO_UDP
    /\ Bound("UDP_SRC") /\ Bound("DHCP_OP")
    /\ DOMAIN dhcp_options = {53}

---------------------------------------------------------------------------
(* C17 *)

\* C17: the constructor returns without a failed ASSERT for every buffer
\* and ingress port: no layer passes a field to bind whose slot is bound.
C17_ConstructionNeverFatal ==
    pc = "done" => ~fatal

\* a VLAN-tagged DHCP frame ran through all four layers
C17_Witness ==
    /\ pc = "done" /\ ~fatal /\ ~data_null
    /\ vlan_tagged
    /\ \A f \in LinkFields \cup Ipv4Fields \cup UdpFields \cup DhcpFields :
          InPkt(f)
    /\ bindings["IN_PORT"] = InPortLoc
    /\ DOMAIN dhcp_options # {}

---------------------------------------------------------------------------
(* C18 *)

\* where the UDP header was decoded
UdpStart == bindings["UDP_SRC"].off

\* the ports of the decoded UDP header are those of a DHCP client talking
\* to a server
DhcpPorts ==
    /\ Rd16(mem, UdpStart + udp_hdr.src) = 68
    /\ Rd16(mem, UdpStart + udp_hdr.dst) = 67

\* C18: a DHCP field is bound or an option is in the table only if a UDP
\* header was decoded with source port 68 and destination port 67, more
\* than 8 bytes of the buffer are left at the UDP header and at least 34
\* are left behind it; with any other pair of ports the UDP ports are bound,
\* no DHCP field is bound and the table is empty.  On a VLAN-tagged frame
\* the DHCP fields are bound with 30 bytes left: violated.
C18_DhcpOnlyBehindClientPorts ==
    Constructed =>
        /\ ((\E f \in DhcpFields : Bound(f)) \/ DOMAIN dhcp_options # {}) =>
              /\ InPkt("UDP_SRC") /\ InPkt("UDP_DST")
              /\ DhcpPorts
              /\ data_len - UdpStart > 8
              /\ data_len - (UdpStart + 8) >= 34
        /\ (InPkt("UDP_SRC") /\ ~DhcpPorts) =>
              /\ InPkt("UDP_DST")
              /\ \A f \in DhcpFields : ~Bound(f)
              /\ DOMAIN dhcp_options = {}

---------------------------------------------------------------------------
(* C19 *)

\* the offsets of the bytes field f is bound to
Range(f) == bindings[f].off .. (bindings[f].off + FieldBytes(f) - 1)

\* where the IPv4 header was decoded
Ipv4Start == bindings["IP_PROTO"].off - ipv4_hdr.protocol

\* C19: the bytes of two different fields bound to the packet do not
\* overlap, and the TCP or UDP ports are bound at or behind the end of the
\* 20-byte IPv4 header, whatever the IHL nibble is.  The transport header is
\* decoded ihl * 4 bytes behind the start of the IPv4 header also for an
\* ihl below 5: violated.
C19_FieldsDisjoint ==
    Constructed =>
        /\ \A f \in Fields : \A g \in Fields \ {f} :
              (InPkt(f) /\ InPkt(g)) => Range(f) \cap Range(g) = {}
        /\ \A f \in TcpFields \cup UdpFields :
              (InPkt(f) /\ InPkt("IP_PROTO")) =>
                  bindings[f].off >= Ipv4Start + 20

---------------------------------------------------------------------------
(* C20 *)

EthFields == { "ETH_SRC", "ETH_DST", "ETH_TYPE" }

\* the fields of the set are bound all together or not at all
AllOrNone(S) == (\A f \in S : Bound(f)) \/ (\A f \in S : ~Bound(f))

AnyBound(S) == \E f \in S : Bound(f)

\* C20: after construction the ingress port is bound; the fields of a
\* layer (link, IPv4, ARP, TCP, UDP, DHCP) are bound all together or not at
\* all; DHCP fields are bound only with the UDP ports, TCP and UDP ports
\* only with the IPv4 fields, IPv4 and ARP fields (and the VLAN id) only
\* with the link-layer fields; IPv4 and ARP fields are never both bound,
\* nor are TCP and UDP ports.
C20_LayersClosed ==
    pc = "done" =>
        /\ ~fatal
        /\ bindings["IN_PORT"] = InPortLoc
        /\ \A S \in { EthFields, Ipv4Fields, ArpFields, TcpFields, UdpFields,
                       DhcpFields } : AllOrNone(S)
        /\ AnyBound(DhcpFields) => AnyBound(UdpFields)
        /\ AnyBound(TcpFields \cup UdpFields) => AnyBound(Ipv4Fields)
        /\ AnyBound(Ipv4Fields \cup ArpFields \cup {"VLAN_VID"}) =>
              AnyBound(EthFields)
        /\ ~(AnyBound(Ipv4Fields) /\ AnyBound(ArpFields))
        /\ ~(AnyBound(TcpFields) /\ AnyBound(UdpFields))

\* an ARP frame: link and ARP layer bound, the IPv4 side not
C20_Witness ==
    /\ pc = "done" /\ ~fatal /\ ~data_null /\ data_len = 42
    /\ \A f \in EthFields \cup ArpFields : InPkt(f)
    /\ \A f \in Ipv4Fields \cup TcpFields \cup UdpFields \cup DhcpFields :
          ~Bound(f)
    /\ bindings["IN_PORT"] = InPortLoc

===========================================================================
